---- MODULE Spec2Model ----
(***************************************************************************)
(* Model of webhook/dyes_server.js: the WhatsApp dyes bot.                 *)
(*                                                                         *)
(* The program state is the process-wide userSessions map, the handlers    *)
(* in flight (one chain of messages per webhook "change", suspended at the *)
(* awaited sends) and the messages handed to the WhatsApp API.             *)
(*                                                                         *)
(* JavaScript runs a handler without interruption up to its first await:   *)
(* the session lookup, the normalisation of the message, the choice of the *)
(* branch and every session mutation happen in that first synchronous run; *)
(* everything after it is a sequence of awaited sends whose contents are   *)
(* already fixed (sendCartSummary reads the cart before its first await).  *)
(* handleIncomingMessage below is that synchronous run; Complete is the    *)
(* return of one awaited send.                                             *)
(*                                                                         *)
(* Encodings: strings are TLA+ strings; the JavaScript values undefined    *)
(* and null in a string-valued slot are the strings "undefined" and        *)
(* "null"; in a number-valued slot undefined and NaN are the negative      *)
(* numbers Undef and NaN. Emoji of the message texts are left out.         *)
(***************************************************************************)
EXTENDS Integers, Sequences, FiniteSets, TLC

VARIABLES
  userSessions,  \* sender -> session: the userSessions object (line 312)
  chains,        \* the change callbacks of the requests received (lines 760-773)
  outbox,        \* the sends that have returned, in order, each delivered or failed
  feed,          \* the request bodies still to arrive
  handled,       \* log: one entry per run of handleIncomingMessage
  now            \* Date.now(), counted in handler runs

vars == <<userSessions, chains, outbox, feed, handled, now>>

-----------------------------------------------------------------------------
(* Bounds of the model                                                     *)

\* Sends that fail in one run
MaxFailures == 1

\* Largest quantity of a cart item in an initial session
MaxQty == 2

\* Changes of one request whose callbacks run concurrently
MaxChanges == 2

-----------------------------------------------------------------------------
(* JavaScript values                                                       *)

Undefined == "undefined"

Null == "null"

Undef == -2

NaN == -1

IsNum(n) == n >= 0

\* a * b and a + b on numbers that may be undefined or NaN
Times(a, b) == IF IsNum(a) /\ IsNum(b) THEN a * b ELSE NaN

Plus(a, b) == IF IsNum(a) /\ IsNum(b) THEN a + b ELSE NaN

\* `${n}` for a number
NumStr(n) == IF IsNum(n) THEN ToString(n) ELSE IF n = NaN THEN "NaN" ELSE "undefined"

-----------------------------------------------------------------------------
(* String operations                                                       *)

LowerChar(c) ==
  CASE c = "A" -> "a" [] c = "B" -> "b" [] c = "C" -> "c" [] c = "D" -> "d"
    [] c = "E" -> "e" [] c = "F" -> "f" [] c = "G" -> "g" [] c = "H" -> "h"
    [] c = "I" -> "i" [] c = "J" -> "j" [] c = "K" -> "k" [] c = "L" -> "l"
    [] c = "M" -> "m" [] c = "N" -> "n" [] c = "O" -> "o" [] c = "P" -> "p"
    [] c = "Q" -> "q" [] c = "R" -> "r" [] c = "S" -> "s" [] c = "T" -> "t"
    [] c = "U" -> "u" [] c = "V" -> "v" [] c = "W" -> "w" [] c = "X" -> "x"
    [] c = "Y" -> "y" [] c = "Z" -> "z" [] OTHER -> c

UpperChar(c) ==
  CASE c = "a" -> "A" [] c = "b" -> "B" [] c = "c" -> "C" [] c = "d" -> "D"
    [] c = "e" -> "E" [] c = "f" -> "F" [] c = "g" -> "G" [] c = "h" -> "H"
    [] c = "i" -> "I" [] c = "j" -> "J" [] c = "k" -> "K" [] c = "l" -> "L"
    [] c = "m" -> "M" [] c = "n" -> "N" [] c = "o" -> "O" [] c = "p" -> "P"
    [] c = "q" -> "Q" [] c = "r" -> "R" [] c = "s" -> "S" [] c = "t" -> "T"
    [] c = "u" -> "U" [] c = "v" -> "V" [] c = "w" -> "W" [] c = "x" -> "X"
    [] c = "y" -> "Y" [] c = "z" -> "Z" [] OTHER -> c

RECURSIVE ToLowerCase(_)
ToLowerCase(s) == IF s = "" THEN "" ELSE LowerChar(Head(s)) \o ToLowerCase(Tail(s))

\* s.includes(sub)
Includes(s, sub) ==
  \E i \in 1..(Len(s) - Len(sub) + 1) : SubSeq(s, i, i + Len(sub) - 1) = sub

\* s.startsWith(p)
StartsWith(s, p) == Len(s) >= Len(p) /\ SubSeq(s, 1, Len(p)) = p

\* s.replace(p, '') for an s that starts with p: the first occurrence is the prefix
DropPrefix(s, p) == SubSeq(s, Len(p) + 1, Len(s))

\* s.charAt(0).toUpperCase() + s.slice(1)
Capitalize(s) == IF s = "" THEN "" ELSE UpperChar(Head(s)) \o Tail(s)

-----------------------------------------------------------------------------
(* The product catalog, in definition order                                *)

products == <<
  [id |-> "dye-001", name |-> "Reactive Red 120", type |-> "Reactive Dye",
   category |-> "reactive", application |-> "Cotton, Silk, Wool",
   packaging |-> "25 kg HDPE drums", price |-> 1250, moq |-> "100 kg",
   description |-> "High-quality reactive dye with excellent wash fastness and bright shade.",
   cas |-> "61951-82-4", inStock |-> TRUE],
  [id |-> "dye-002", name |-> "Reactive Blue 19", type |-> "Reactive Dye",
   category |-> "reactive", application |-> "Cotton, Silk, Wool",
   packaging |-> "25 kg HDPE drums", price |-> 1350, moq |-> "100 kg",
   description |-> "Brilliant blue reactive dye with high fixation rate and color stability.",
   cas |-> "2580-78-1", inStock |-> TRUE],
  [id |-> "dye-003", name |-> "Reactive Yellow 86", type |-> "Reactive Dye",
   category |-> "reactive", application |-> "Cotton, Silk, Wool",
   packaging |-> "25 kg HDPE drums", price |-> 1150, moq |-> "100 kg",
   description |-> "Vibrant yellow reactive dye with excellent light fastness properties.",
   cas |-> "61951-86-8", inStock |-> TRUE],
  [id |-> "dye-004", name |-> "Direct Black 38", type |-> "Direct Dye",
   category |-> "direct", application |-> "Paper, Leather",
   packaging |-> "20 kg bags", price |-> 950, moq |-> "80 kg",
   description |-> "Deep black direct dye with good light fastness for paper and leather applications.",
   cas |-> "1937-37-7", inStock |-> TRUE],
  [id |-> "dye-005", name |-> "Direct Red 81", type |-> "Direct Dye",
   category |-> "direct", application |-> "Paper, Leather",
   packaging |-> "20 kg bags", price |-> 1050, moq |-> "80 kg",
   description |-> "Bright red direct dye with excellent solubility and even dyeing properties.",
   cas |-> "2610-11-9", inStock |-> TRUE],
  [id |-> "dye-006", name |-> "Acid Blue 9", type |-> "Acid Dye",
   category |-> "acid", application |-> "Nylon, Wool, Silk",
   packaging |-> "15 kg cartons", price |-> 1550, moq |-> "60 kg",
   description |-> "Brilliant blue acid dye for protein fibers with excellent leveling properties.",
   cas |-> "3844-45-9", inStock |-> TRUE],
  [id |-> "dye-007", name |-> "Acid Red 52", type |-> "Acid Dye",
   category |-> "acid", application |-> "Nylon, Wool, Silk",
   packaging |-> "15 kg cartons", price |-> 1650, moq |-> "60 kg",
   description |-> "Bright red acid dye with high tinting strength and good light fastness.",
   cas |-> "3520-42-1", inStock |-> FALSE],
  [id |-> "int-001", name |-> "H-Acid", type |-> "Dye Intermediate",
   category |-> "intermediate", application |-> "Manufacturing of acid and reactive dyes",
   packaging |-> "25 kg fiber drums", price |-> 2250, moq |-> "100 kg",
   description |-> "Key intermediate for synthesis of various acid and reactive dyes.",
   cas |-> "90-20-0", inStock |-> TRUE],
  [id |-> "int-002", name |-> "J-Acid", type |-> "Dye Intermediate",
   category |-> "intermediate", application |-> "Manufacturing of acid and reactive dyes",
   packaging |-> "25 kg fiber drums", price |-> 2150, moq |-> "100 kg",
   description |-> "Essential intermediate for production of blue and navy dyes.",
   cas |-> "92-70-6", inStock |-> TRUE],
  [id |-> "int-003", name |-> "Benzidine Intermediate", type |-> "Chemical Intermediate",
   category |-> "intermediate", application |-> "Dye manufacturing",
   packaging |-> "200 kg steel drums", price |-> 850, moq |-> "500 kg",
   description |-> "Used in the synthesis of direct dyes.",
   cas |-> "92-87-5", inStock |-> TRUE] >>

ProductIds == {products[i].id : i \in 1..Len(products)}

\* What products[key] finds on the prototype chain of the object literal for a
\* key that is no product id: the Object function and Object.prototype.
\* Neither has any of the product fields except the function's name.
Inherited(key) ==
  [id |-> Undefined, name |-> IF key = "constructor" THEN "Object" ELSE Undefined,
   type |-> Undefined, category |-> Undefined, application |-> Undefined,
   packaging |-> Undefined, price |-> Undef, moq |-> Undefined,
   description |-> Undefined, cas |-> Undefined, inStock |-> FALSE]

\* products[key] is truthy
HasProduct(key) == key \in ProductIds \cup {"constructor", "__proto__"}

\* products[key], for a key with HasProduct(key)
Lookup(key) ==
  IF key \in ProductIds
  THEN products[CHOOSE i \in 1..Len(products) : products[i].id = key]
  ELSE Inherited(key)

getProductsByCategory(category) ==
  LET InCat(p) == p.category = category IN SelectSeq(products, InCat)

\* The category keys in first-seen order, each with the name and description
\* taken from the first product of the category.
RECURSIVE CategoriesOf(_, _)
CategoriesOf(seq, seen) ==
  IF seq = <<>> THEN <<>>
  ELSE LET p == Head(seq) IN
       IF p.category \in seen THEN CategoriesOf(Tail(seq), seen)
       ELSE <<[key |-> p.category, name |-> Capitalize(p.category),
               description |-> p.type]>>
            \o CategoriesOf(Tail(seq), seen \cup {p.category})

getProductCategories == CategoriesOf(products, {})

formatProductDetails(product) ==
  "*" \o product.name \o "*\n\n"
  \o "*Type:* " \o product.type \o "\n"
  \o "*Application:* " \o product.application \o "\n"
  \o "*Packaging:* " \o product.packaging \o "\n"
  \o "*Price:* $" \o NumStr(product.price) \o " per unit\n"
  \o "*MOQ:* " \o product.moq \o "\n"
  \o "*CAS:* " \o product.cas \o "\n"
  \o "*Availability:* " \o (IF product.inStock THEN "In Stock" ELSE "Out of Stock") \o "\n\n"
  \o "*Description:* " \o product.description

-----------------------------------------------------------------------------
(* Outbound messages: the payloads handed to sendWhatsAppMessage           *)

sendTextMessage(text) == [type |-> "text", body |-> text]

sendInteractiveMessage(header, body, buttons) ==
  [type |-> "button", header |-> header, body |-> body, buttons |-> buttons]

sendListMessage(header, body, sections) ==
  [type |-> "list", header |-> header, body |-> body, sections |-> sections]

StockLabel(product) ==
  product.type \o " - " \o (IF product.inStock THEN "In Stock" ELSE "Out of Stock")

ProductRow(product) ==
  [id |-> "product_" \o product.id, title |-> product.name,
   description |-> StockLabel(product)]

\* Mutant of sendWelcomeMenu: the list lacks the request_quote row
sendWelcomeMenuNoQuote ==
  << sendTextMessage("Welcome to Dyes & Intermediates Bot! How can I assist you today? Select an option:"),
     sendListMessage("Welcome to Dyes & Intermediates Bot!",
       "How can I assist you today? Select an option:",
       << [title |-> "Main Options",
           rows |-> <<
             [id |-> "browse_products", title |-> "Browse Products",
              description |-> "View our range of dyes and intermediates"],
             [id |-> "search_products", title |-> "Search Products",
              description |-> "Find specific products"],
             [id |-> "track_order", title |-> "Track Order",
              description |-> "Check status of your order"],
             [id |-> "contact_support", title |-> "Contact Support",
              description |-> "Talk to our sales team"] >>] >>) >>

sendWelcomeMenu ==
  << sendTextMessage("Welcome to Dyes & Intermediates Bot! How can I assist you today? Select an option:"),
     sendListMessage("Welcome to Dyes & Intermediates Bot!",
       "How can I assist you today? Select an option:",
       << [title |-> "Main Options",
           rows |-> <<
             [id |-> "browse_products", title |-> "Browse Products",
              description |-> "View our range of dyes and intermediates"],
             [id |-> "search_products", title |-> "Search Products",
              description |-> "Find specific products"],
             [id |-> "request_quote", title |-> "Request Quote",
              description |-> "Get pricing for bulk orders"],
             [id |-> "track_order", title |-> "Track Order",
              description |-> "Check status of your order"],
             [id |-> "contact_support", title |-> "Contact Support",
              description |-> "Talk to our sales team"] >>] >>) >>

sendCategoryMenu ==
  LET categories == getProductCategories
      rows == [i \in 1..Len(categories) |->
                 [id |-> "category_" \o categories[i].key,
                  title |-> categories[i].name,
                  description |-> categories[i].description]]
  IN << sendListMessage("Product Categories", "Select a category to browse products:",
          << [title |-> "Product Categories", rows |-> rows] >>) >>

sendProductListByCategory(category) ==
  LET categoryProducts == getProductsByCategory(category) IN
  IF Len(categoryProducts) = 0
  THEN <<sendTextMessage("No products found in this category.")>> \o sendCategoryMenu
  ELSE LET rows == [i \in 1..Len(categoryProducts) |-> ProductRow(categoryProducts[i])]
                   \o << [id |-> "back_to_categories", title |-> "Back to Categories",
                          description |-> "Return to category list"] >>
       IN << sendListMessage(categoryProducts[1].type, "Select a product to view details:",
               << [title |-> "Products", rows |-> rows] >>) >>

sendProductActionButtons(additionalAction) ==
  LET buttons == << [id |-> "add_to_cart", title |-> "Add to Cart"],
                    [id |-> "request_quote", title |-> "Request Quote"],
                    [id |-> "back_to_products", title |-> "Back to Products"] >>
                 \o (IF additionalAction = "view_cart"
                     THEN << [id |-> "view_cart", title |-> "View Cart"] >>
                     ELSE <<>>)
  IN << sendInteractiveMessage("Product Actions", "What would you like to do next?", buttons) >>

sendProductDetails(product) ==
  <<sendTextMessage(formatProductDetails(product))>> \o sendProductActionButtons(Null)

\* The lines of the cart text and the running total, item by item
RECURSIVE CartLines(_, _)
CartLines(cart, index) ==
  IF cart = <<>> THEN ""
  ELSE LET item == Head(cart)
           itemTotal == Times(item.price, item.quantity)
       IN ToString(index + 1) \o ". " \o item.name \o " x " \o ToString(item.quantity)
          \o " = $" \o NumStr(itemTotal) \o "\n" \o CartLines(Tail(cart), index + 1)

\* Mutant of CartTotal: the unit prices are summed, whatever the quantities
RECURSIVE CartTotalOfPrices(_)
CartTotalOfPrices(cart) ==
  IF cart = <<>> THEN 0
  ELSE LET n == Len(cart) IN Plus(CartTotalOfPrices(SubSeq(cart, 1, n - 1)), cart[n].price)

RECURSIVE CartTotal(_)
CartTotal(cart) ==
  IF cart = <<>> THEN 0
  ELSE LET n == Len(cart)
           item == cart[n]
       IN Plus(CartTotal(SubSeq(cart, 1, n - 1)), Times(item.price, item.quantity))

sendCartSummary(session) ==
  IF Len(session.cart) = 0
  THEN <<sendTextMessage("Your cart is empty.")>> \o sendWelcomeMenu
  ELSE LET cartText == "*Your Cart*\n\n" \o CartLines(session.cart, 0)
                       \o "\n*Total: $" \o NumStr(CartTotal(session.cart)) \o "*"
       IN << sendTextMessage(cartText),
             sendInteractiveMessage("Cart Actions", "What would you like to do next?",
               << [id |-> "checkout", title |-> "Checkout"],
                  [id |-> "clear_cart", title |-> "Clear Cart"],
                  [id |-> "continue_shopping", title |-> "Continue Shopping"] >>) >>

sendSearchResults(results) ==
  LET limited == IF Len(results) > 10 THEN SubSeq(results, 1, 10) ELSE results
      rows == [i \in 1..Len(limited) |-> ProductRow(limited[i])]
              \o << [id |-> "main_menu", title |-> "Back to Main Menu",
                     description |-> "Return to main menu"] >>
  IN << sendListMessage("Search Results", "Select a product to view details:",
          << [title |-> "Search Results", rows |-> rows] >>) >>

-----------------------------------------------------------------------------
(* handleIncomingMessage: the synchronous run of the handler.              *)
(* An inbound message is [from, kind, value, rnd]: kind "text" carries     *)
(* text.body in value, "button" and "list" carry the reply id, "image" has *)
(* neither; rnd holds the two values Math.random() returns should the      *)
(* handler reach the order tracking stub. The result is the session as     *)
(* mutated and the messages sent, in order. The sections fall through to   *)
(* the next one exactly where the code does. The catch block is not        *)
(* modelled: no statement of the try block throws for a message whose      *)
(* text body and reply ids are strings, and sendWhatsAppMessage catches    *)
(* every failure of a send itself.                                         *)

Res(session, out) == [session |-> session, out |-> out]

NewSession(time) ==
  [lastInteraction |-> time, context |-> "welcome", cart |-> <<>>,
   lastProductViewed |-> Null, currentCategory |-> Undefined]

\* message.text?.body?.toLowerCase() || button_reply.id || list_reply.id || ''
MessageText(message) ==
  IF message.kind = "image" THEN "" ELSE ToLowerCase(message.value)

orderStatuses == <<"Processing", "Shipped", "Delivered", "On Hold">>

\* toDateString() of the day `days` days after the day of the call
DateString(days) == "today+" \o ToString(days)

\* Default response if no patterns match
DefaultResponse(session, messageText) ==
  IF session.context = "welcome"
  THEN Res(session, sendWelcomeMenu)
  ELSE Res(session, <<>>)

HandleRequestQuote(session, messageText) ==
  IF messageText = "request_quote"
  THEN Res([session EXCEPT !.context = "requesting_quote"],
           <<sendTextMessage("Please provide the following information for a quote:\n\n1. Product name/code\n2. Quantity required\n3. Delivery location\n4. Your contact information\n\nOur team will prepare a custom quote for you within 24 hours.")>>)
  ELSE DefaultResponse(session, messageText)

\* Mutant of HandleTrackingInput: the random status also decides whether the
\* session goes to checkout
HandleTrackingInputRandomState(session, messageText, rnd) ==
  IF session.context = "tracking_order"
  THEN LET randomStatus == orderStatuses[rnd.status + 1]
           estimatedDelivery == DateString(rnd.days + 1)
       IN Res(IF rnd.status = 3 THEN [session EXCEPT !.context = "checkout"] ELSE session,
              <<sendTextMessage("Order #" \o messageText \o "\n\nStatus: " \o randomStatus
                  \o "\nEstimated Delivery: " \o estimatedDelivery
                  \o "\n\nThank you for your business!")>> \o sendWelcomeMenu)
  ELSE HandleRequestQuote(session, messageText)

HandleTrackingInput(session, messageText, rnd) ==
  IF session.context = "tracking_order"
  THEN LET randomStatus == orderStatuses[rnd.status + 1]
           estimatedDelivery == DateString(rnd.days + 1)
       IN Res(session,
              <<sendTextMessage("Order #" \o messageText \o "\n\nStatus: " \o randomStatus
                  \o "\nEstimated Delivery: " \o estimatedDelivery
                  \o "\n\nThank you for your business!")>> \o sendWelcomeMenu)
  ELSE HandleRequestQuote(session, messageText)

HandleTrackOrder(session, messageText, rnd) ==
  IF messageText = "track_order"
  THEN Res([session EXCEPT !.context = "tracking_order"],
           <<sendTextMessage("Please enter your order number to track its status.")>>)
  ELSE HandleTrackingInput(session, messageText, rnd)

HandleSupportOptions(session, messageText, rnd) ==
  IF session.context = "contacting_support" /\ messageText = "sales_inquiry"
  THEN Res(session,
           <<sendTextMessage("Please provide details about your inquiry and our sales team will contact you within 24 hours. You can also reach us at sales@dyescompany.com or +1-555-123-4567.")>>
           \o sendWelcomeMenu)
  ELSE IF session.context = "contacting_support" /\ messageText = "technical_support"
  THEN Res(session,
           <<sendTextMessage("For technical assistance with our products, please describe your issue in detail. Our technical team will respond within 48 hours. For urgent matters, call our technical hotline at +1-555-987-6543.")>>
           \o sendWelcomeMenu)
  ELSE HandleTrackOrder(session, messageText, rnd)

HandleContactSupport(session, messageText, rnd) ==
  IF messageText = "contact_support"
  THEN Res([session EXCEPT !.context = "contacting_support"],
           <<sendInteractiveMessage("Contact Support", "How can our team help you today?",
               << [id |-> "sales_inquiry", title |-> "Sales Inquiry"],
                  [id |-> "technical_support", title |-> "Technical Support"],
                  [id |-> "main_menu", title |-> "Back to Main Menu"] >>)>>)
  ELSE HandleSupportOptions(session, messageText, rnd)

\* The filter of the direct search: name, type, CAS number
DirectSearchResults(messageText) ==
  LET Match(product) ==
        \/ Includes(ToLowerCase(product.name), messageText)
        \/ Includes(ToLowerCase(product.type), messageText)
        \/ Includes(product.cas, messageText)
  IN SelectSeq(products, Match)

HandleDirectSearch(session, messageText, rnd) ==
  IF messageText # "" /\ messageText # "hi" /\ messageText # "hello"
     /\ Len(DirectSearchResults(messageText)) > 0
  THEN LET searchResults == DirectSearchResults(messageText) IN
       Res(session,
           <<sendTextMessage("Found " \o ToString(Len(searchResults))
               \o " products matching your search:")>>
           \o sendSearchResults(searchResults))
  ELSE HandleContactSupport(session, messageText, rnd)

\* The filter of the search in context searching: name, type, description
SearchResults(messageText) ==
  LET Match(product) ==
        \/ Includes(ToLowerCase(product.name), messageText)
        \/ Includes(ToLowerCase(product.type), messageText)
        \/ Includes(ToLowerCase(product.description), messageText)
  IN SelectSeq(products, Match)

HandleSearchQuery(session, messageText, rnd) ==
  IF session.context = "searching"
  THEN LET searchResults == SearchResults(messageText) IN
       IF Len(searchResults) > 0
       THEN Res(session,
                <<sendTextMessage("Found " \o ToString(Len(searchResults))
                    \o " products matching your search:")>>
                \o sendSearchResults(searchResults))
       ELSE Res(session,
                <<sendTextMessage("No products found matching your search. Please try different keywords.")>>
                \o sendWelcomeMenu)
  ELSE HandleDirectSearch(session, messageText, rnd)

HandleSearchProducts(session, messageText, rnd) ==
  IF messageText = "search_products"
  THEN Res([session EXCEPT !.context = "searching"],
           <<sendTextMessage("Please type the name or type of product you're looking for.")>>)
  ELSE HandleSearchQuery(session, messageText, rnd)

\* Mutant of HandleCartActions: checkout empties the cart
HandleCartActionsCheckoutEmpties(session, messageText, rnd) ==
  IF messageText = "view_cart"
  THEN Res(session, sendCartSummary(session))
  ELSE IF messageText = "checkout"
  THEN Res([session EXCEPT !.context = "checkout", !.cart = <<>>],
           <<sendTextMessage("Please provide your shipping details (name, address, email) to proceed with your order.")>>)
  ELSE IF messageText = "clear_cart"
  THEN Res([session EXCEPT !.cart = <<>>],
           <<sendTextMessage("Your cart has been cleared.")>> \o sendWelcomeMenu)
  ELSE IF messageText = "continue_shopping"
  THEN Res([session EXCEPT !.context = "browsing_categories"], sendCategoryMenu)
  ELSE HandleSearchProducts(session, messageText, rnd)

HandleCartActions(session, messageText, rnd) ==
  IF messageText = "view_cart"
  THEN Res(session, sendCartSummary(session))
  ELSE IF messageText = "checkout"
  THEN IF Len(session.cart) > 0
       THEN Res([session EXCEPT !.context = "checkout"],
                <<sendTextMessage("Please provide your shipping details (name, address, email) to proceed with your order.")>>)
       ELSE Res(session,
                <<sendTextMessage("Your cart is empty. Browse our products to add items to your cart.")>>
                \o sendWelcomeMenu)
  ELSE IF messageText = "clear_cart"
  THEN Res([session EXCEPT !.cart = <<>>],
           <<sendTextMessage("Your cart has been cleared.")>> \o sendWelcomeMenu)
  ELSE IF messageText = "continue_shopping"
  THEN Res([session EXCEPT !.context = "browsing_categories"], sendCategoryMenu)
  ELSE HandleSearchProducts(session, messageText, rnd)

\* Mutant of AddToCart: the entry is pushed without looking for an existing one
AddToCartAlwaysPush(cart, product) ==
  Append(cart, [id |-> product.id, name |-> product.name,
                price |-> product.price, quantity |-> 1])

\* cart.find(item => item.id === product.id), then quantity += 1 or push
AddToCart(cart, product) ==
  IF \E i \in 1..Len(cart) : cart[i].id = product.id
  THEN LET i == CHOOSE k \in 1..Len(cart) :
                  /\ cart[k].id = product.id
                  /\ \A j \in 1..(k - 1) : cart[j].id # product.id
       IN [cart EXCEPT ![i].quantity = @ + 1]
  ELSE Append(cart, [id |-> product.id, name |-> product.name,
                     price |-> product.price, quantity |-> 1])

HandleProductActions(session, messageText, rnd) ==
  IF session.context = "viewing_product" /\ messageText = "add_to_cart"
     /\ session.lastProductViewed # Null /\ session.lastProductViewed # ""
     /\ HasProduct(session.lastProductViewed)
  THEN LET product == Lookup(session.lastProductViewed) IN
       Res([session EXCEPT !.cart = AddToCart(session.cart, product)],
           <<sendTextMessage("Added " \o product.name \o " to your cart.")>>
           \o sendProductActionButtons("view_cart"))
  ELSE IF session.context = "viewing_product" /\ messageText = "request_quote"
  THEN Res([session EXCEPT !.context = "requesting_quote"],
           <<sendTextMessage("Please provide your contact details and quantity requirements, and our sales team will get back to you with a quote within 24 hours.")>>)
  ELSE IF session.context = "viewing_product" /\ messageText = "back_to_products"
  THEN Res([session EXCEPT !.context = "browsing_products"],
           sendProductListByCategory(session.currentCategory))
  ELSE IF session.context = "viewing_product" /\ messageText = "view_cart"
  THEN Res(session, sendCartSummary(session))
  ELSE HandleCartActions(session, messageText, rnd)

HandleProductSelection(session, messageText, rnd) ==
  IF session.context = "browsing_products" /\ StartsWith(messageText, "product_")
     /\ HasProduct(DropPrefix(messageText, "product_"))
  THEN LET productId == DropPrefix(messageText, "product_") IN
       Res([session EXCEPT !.context = "viewing_product",
                           !.lastProductViewed = productId],
           sendProductDetails(Lookup(productId)))
  ELSE IF session.context = "browsing_products" /\ messageText = "back_to_categories"
  THEN Res([session EXCEPT !.context = "browsing_categories"], sendCategoryMenu)
  ELSE HandleProductActions(session, messageText, rnd)

HandleCategorySelection(session, messageText, rnd) ==
  IF session.context = "browsing_categories" /\ StartsWith(messageText, "category_")
  THEN LET category == DropPrefix(messageText, "category_") IN
       Res([session EXCEPT !.context = "browsing_products",
                           !.currentCategory = category],
           sendProductListByCategory(category))
  ELSE HandleProductSelection(session, messageText, rnd)

HandleBrowseProducts(session, messageText, rnd) ==
  IF messageText = "browse_products"
  THEN Res([session EXCEPT !.context = "browsing_categories"], sendCategoryMenu)
  ELSE HandleCategorySelection(session, messageText, rnd)

\* Mutant of HandleWelcome: a session in welcome is not answered with the menu
\* whatever it sends
HandleWelcomeNotAbsorbing(session, messageText, rnd) ==
  IF \/ Includes(messageText, "hi") \/ Includes(messageText, "hello")
     \/ Includes(messageText, "start") \/ messageText = "main_menu"
  THEN Res(session, sendWelcomeMenu)
  ELSE HandleBrowseProducts(session, messageText, rnd)

\* Welcome message and main menu
HandleWelcome(session, messageText, rnd) ==
  IF \/ Includes(messageText, "hi") \/ Includes(messageText, "hello")
     \/ Includes(messageText, "start") \/ messageText = "main_menu"
     \/ session.context = "welcome"
  THEN Res(session, sendWelcomeMenu)
  ELSE HandleBrowseProducts(session, messageText, rnd)

\* Mutant of HandleReset: the reset also empties the cart
HandleResetClearsCart(session, messageText, rnd) ==
  IF messageText = "reset" \/ messageText = "restart"
  THEN Res([session EXCEPT !.context = "welcome", !.cart = <<>>],
           <<sendTextMessage("I've reset our conversation. How can I help you today?")>>
           \o sendWelcomeMenu)
  ELSE HandleWelcome(session, messageText, rnd)

\* Reset command
HandleReset(session, messageText, rnd) ==
  IF messageText = "reset" \/ messageText = "restart"
  THEN Res([session EXCEPT !.context = "welcome"],
           <<sendTextMessage("I've reset our conversation. How can I help you today?")>>
           \o sendWelcomeMenu)
  ELSE HandleWelcome(session, messageText, rnd)

\* The session the handler works on: created if absent, else its
\* lastInteraction updated
GetSession(sessions, from, time) ==
  IF from \in DOMAIN sessions
  THEN [sessions[from] EXCEPT !.lastInteraction = time]
  ELSE NewSession(time)

\* Mutant of handleIncomingMessage: one session object shared by all senders
handleIncomingMessageShared(sessions, message, time) ==
  LET from == message.from
      r == HandleReset(GetSession(sessions, from, time), MessageText(message), message.rnd)
  IN [sessions |-> [k \in DOMAIN sessions \cup {from} |-> r.session],
      out |-> r.out]

\* The whole synchronous run: the sessions map afterwards and the sends
handleIncomingMessage(sessions, message, time) ==
  LET from == message.from
      r == HandleReset(GetSession(sessions, from, time), MessageText(message), message.rnd)
  IN [sessions |-> [k \in DOMAIN sessions \cup {from} |->
                      IF k = from THEN r.session ELSE sessions[k]],
      out |-> r.out]

-----------------------------------------------------------------------------
(* The webhook: app.post('/webhook')                                       *)
(*                                                                         *)
(* The two nested forEach calls start one async callback per change, in    *)
(* entry order then change order; each callback handles the messages of    *)
(* its change one after the other (for ... await). A chain is one such     *)
(* callback: queue holds its messages not yet handled, pending the sends   *)
(* the handler it is waiting for has still to make, ev the number of the   *)
(* event it is handling (0: none).                                         *)

\* The message lists of the changes the callbacks handle, in starting order
RECURSIVE ChangesOf(_)
ChangesOf(entries) ==
  IF entries = <<>> THEN <<>>
  ELSE LET IsMessages(change) == change.field = "messages"
           changes == SelectSeq(Head(entries).changes, IsMessages)
       IN [i \in 1..Len(changes) |-> changes[i].messages] \o ChangesOf(Tail(entries))

BodyChanges(body) ==
  IF body.object = "whatsapp_business_account" THEN ChangesOf(body.entry) ELSE <<>>

\* The events whose handler has started and still has sends to make
InFlight(chs) == {chs[c].ev : c \in {k \in 1..Len(chs) : chs[k].pending # <<>>}}

\* Mutant of Settle: every callback started together works on the sessions as
\* they were when the first of them started, and writes its own result back
RECURSIVE SettleFrom(_, _)
SettleFrom(st, snapshot) ==
  IF st.ready = <<>> THEN st
  ELSE LET c == Head(st.ready)
           chain == st.chains[c]
       IN IF chain.queue = <<>>
          THEN SettleFrom([st EXCEPT !.ready = Tail(@), !.chains[c].ev = 0], snapshot)
          ELSE LET message == Head(chain.queue)
                   time == st.now + 1
                   r == handleIncomingMessage(snapshot, message, time)
                   ev == Len(st.handled) + 1
                   entry == [message |-> message, chain |-> c,
                             before |-> st.sessions, after |-> r.sessions,
                             out |-> r.out, inFlight |-> InFlight(st.chains)]
               IN SettleFrom([sessions |-> r.sessions,
                              chains |-> [st.chains EXCEPT
                                            ![c] = [queue |-> Tail(chain.queue),
                                                    pending |-> r.out, ev |-> ev]],
                              ready |-> IF r.out = <<>> THEN Tail(st.ready) \o <<c>>
                                        ELSE Tail(st.ready),
                              handled |-> Append(st.handled, entry),
                              now |-> time], snapshot)

SettleStale(st) == SettleFrom(st, st.sessions)

\* Runs every callback that is ready to go on, in the order they became ready,
\* until each has finished its change or is suspended at a send. st holds
\* sessions, chains, ready (the callbacks ready to go on), handled and now.
RECURSIVE Settle(_)
Settle(st) ==
  IF st.ready = <<>> THEN st
  ELSE LET c == Head(st.ready)
           chain == st.chains[c]
       IN IF chain.queue = <<>>
          THEN Settle([st EXCEPT !.ready = Tail(@), !.chains[c].ev = 0])
          ELSE LET message == Head(chain.queue)
                   time == st.now + 1
                   r == handleIncomingMessage(st.sessions, message, time)
                   ev == Len(st.handled) + 1
                   entry == [message |-> message, chain |-> c,
                             before |-> st.sessions, after |-> r.sessions,
                             out |-> r.out, inFlight |-> InFlight(st.chains)]
               IN Settle([sessions |-> r.sessions,
                          chains |-> [st.chains EXCEPT
                                        ![c] = [queue |-> Tail(chain.queue),
                                                pending |-> r.out, ev |-> ev]],
                          ready |-> IF r.out = <<>> THEN Tail(st.ready) \o <<c>>
                                    ELSE Tail(st.ready),
                          handled |-> Append(st.handled, entry),
                          now |-> time])

Commit(st) ==
  /\ userSessions' = st.sessions
  /\ chains' = st.chains
  /\ handled' = st.handled
  /\ now' = st.now

\* A webhook request arrives: every change's callback is started and runs
\* up to its first awaited send.
Post ==
  /\ feed # <<>>
  /\ LET changes == BodyChanges(Head(feed))
         n == Len(chains)
         started == chains \o [i \in 1..Len(changes) |->
                                 [queue |-> changes[i], pending |-> <<>>, ev |-> 0]]
     IN Commit(Settle([sessions |-> userSessions, chains |-> started,
                       ready |-> [i \in 1..Len(changes) |-> n + i],
                       handled |-> handled, now |-> now]))
  /\ feed' = Tail(feed)
  /\ UNCHANGED outbox

Failures == Cardinality({i \in 1..Len(outbox) : ~outbox[i].ok})

\* Mutant of Complete: a failed send puts the sender's session back to what it
\* was before the event
CompleteRollback(c, ok) ==
  /\ chains[c].pending # <<>>
  /\ ok \/ Failures < MaxFailures
  /\ outbox' = Append(outbox, [to |-> handled[chains[c].ev].message.from,
                               ev |-> chains[c].ev,
                               message |-> Head(chains[c].pending), ok |-> ok])
  /\ LET popped == [chains EXCEPT ![c].pending = Tail(@)]
         kept == IF ok THEN userSessions ELSE handled[chains[c].ev].before
     IN Commit(Settle([sessions |-> kept, chains |-> popped,
                       ready |-> IF Tail(chains[c].pending) = <<>> THEN <<c>> ELSE <<>>,
                       handled |-> handled, now |-> now]))
  /\ UNCHANGED feed

\* The send chain c is waiting for returns, delivered (ok) or failed and
\* logged by sendWhatsAppMessage; the handler goes on to its next send, or
\* returns and the callback goes on to the next message of its change.
Complete(c, ok) ==
  /\ chains[c].pending # <<>>
  /\ ok \/ Failures < MaxFailures
  /\ outbox' = Append(outbox, [to |-> handled[chains[c].ev].message.from,
                               ev |-> chains[c].ev,
                               message |-> Head(chains[c].pending), ok |-> ok])
  /\ LET popped == [chains EXCEPT ![c].pending = Tail(@)]
     IN Commit(Settle([sessions |-> userSessions, chains |-> popped,
                       ready |-> IF Tail(chains[c].pending) = <<>> THEN <<c>> ELSE <<>>,
                       handled |-> handled, now |-> now]))
  /\ UNCHANGED feed

Next ==
  \/ Post
  \/ \E c \in 1..Len(chains) : \E ok \in BOOLEAN : Complete(c, ok)

-----------------------------------------------------------------------------
(* Inputs                                                                  *)

Alice == "15550001"

Bob == "15550002"

Senders == {Alice, Bob}

NoRnd == [status |-> 0, days |-> 0]

TextMessage(from, body) == [from |-> from, kind |-> "text", value |-> body, rnd |-> NoRnd]

ButtonReply(from, id) == [from |-> from, kind |-> "button", value |-> id, rnd |-> NoRnd]

ListReply(from, id) == [from |-> from, kind |-> "list", value |-> id, rnd |-> NoRnd]

MessagesChange(messages) == [field |-> "messages", messages |-> messages]

\* A request body with one entry holding the given changes
OneEntry(changes) ==
  [object |-> "whatsapp_business_account", entry |-> << [changes |-> changes] >>]

\* A request body with one entry per given change
EntryPerChange(changes) ==
  [object |-> "whatsapp_business_account",
   entry |-> [i \in 1..Len(changes) |-> [changes |-> <<changes[i]>>]]]

\* Scenario 2 of the specification, as one sender's messages in order
Scenario2(from) ==
  << ListReply(from, "browse_products"), ListReply(from, "category_reactive"),
     ListReply(from, "product_dye-001"), ButtonReply(from, "add_to_cart"),
     ButtonReply(from, "view_cart") >>

CommandIds ==
  {"reset", "restart", "main_menu", "browse_products", "category_reactive",
   "category_solvent", "product_dye-001", "product_dye-999", "product_constructor",
   "back_to_categories", "add_to_cart", "request_quote", "back_to_products",
   "view_cart", "checkout", "clear_cart", "continue_shopping", "search_products",
   "contact_support", "sales_inquiry", "technical_support", "track_order"}

FreeTexts ==
  {"hi", "Hello", "start", "RESET", "xyz123", "white", "shipping", "120", "blue",
   "dye", "1937", ""}

\* Values the two calls of Math.random() lead to, the least and the greatest
\* of each: the index of the status (floor of random * 4, 0..3) and the days
\* added less one (floor of random * 10, 0..9)
Rnds == [status : {0, 3}, days : {0, 9}]

\* An order number, with the random draws of the run that handles it
OrderNumber(from, body, rnd) ==
  [from |-> from, kind |-> "text", value |-> body, rnd |-> rnd]

AnyMessages ==
  {ButtonReply(Alice, id) : id \in CommandIds}
  \cup {TextMessage(Alice, body) : body \in FreeTexts}
  \cup {[from |-> Alice, kind |-> "image", value |-> "", rnd |-> NoRnd]}
  \cup {OrderNumber(Alice, "xyz123", [status |-> 3, days |-> 9])}

FreshMessages ==
  {TextMessage(from, body) : from \in Senders, body \in {"hi", "reset", "xyz123"}}
  \cup {ButtonReply(from, id) : from \in Senders, id \in {"add_to_cart", "checkout"}}

\* Two messages in one request, in each of the three places the payload has
\* for them: one change, two changes of one entry, two entries
PairBodies(m1, m2) ==
  { OneEntry(<<MessagesChange(<<m1, m2>>)>>),
    OneEntry(<<MessagesChange(<<m1>>), MessagesChange(<<m2>>)>>),
    EntryPerChange(<<MessagesChange(<<m1>>), MessagesChange(<<m2>>)>>) }

FreshFeeds ==
  { <<OneEntry(<<MessagesChange(Scenario2(Alice))>>)>>,
    <<OneEntry(<<[field |-> "account_update", messages |-> <<TextMessage(Alice, "hi")>>],
                 MessagesChange(<<TextMessage(Alice, "hi")>>)>>)>>,
    <<[object |-> "page", entry |-> <<>>]>> }
  \cup UNION {{<<body>> : body \in PairBodies(m1, m2)} : m1 \in FreshMessages, m2 \in FreshMessages}
  \cup {<<OneEntry(<<MessagesChange(<<m>>)>>)>> : m \in AnyMessages}
  \cup {<<OneEntry(<<MessagesChange(<<TextMessage(Alice, "hi"), m>>)>>)>> : m \in AnyMessages}

-----------------------------------------------------------------------------
(* The program after construction: no session, nothing in flight; the      *)
(* requests it will receive are drawn from FreshFeeds.                     *)

Init ==
  /\ userSessions = <<>>
  /\ chains = <<>>
  /\ outbox = <<>>
  /\ handled = <<>>
  /\ now = 0
  /\ feed \in FreshFeeds

Spec == Init /\ [][Next]_vars

-----------------------------------------------------------------------------
(* A session in any dialog state: the handler as a transition function.    *)
(* Every session of the freshly started program is in context welcome with *)
(* an empty cart, so what the handler does in the other contexts is seen   *)
(* only from sessions written down here: every context the code assigns,   *)
(* carts as add_to_cart builds them, and the values the code stores in     *)
(* lastProductViewed and currentCategory.                                  *)

Contexts ==
  {"welcome", "browsing_categories", "browsing_products", "viewing_product",
   "searching", "requesting_quote", "contacting_support", "tracking_order", "checkout"}

\* The cart item add_to_cart pushes for a product, with a quantity
CartItem(id, quantity) ==
  [id |-> Lookup(id).id, name |-> Lookup(id).name, price |-> Lookup(id).price,
   quantity |-> quantity]

InitCarts ==
  {<<>>}
  \cup {<<CartItem("dye-001", q)>> : q \in 1..MaxQty}
  \cup {<<CartItem("int-003", 1), CartItem("dye-001", q)>> : q \in 1..MaxQty}

AnySession ==
  [lastInteraction : {0}, context : Contexts, cart : InitCarts,
   lastProductViewed : {Null, "dye-001", "dye-002", "constructor"},
   currentCategory : {Undefined, "reactive", "solvent"}]

ResetMessages == {ButtonReply(Alice, "reset"), ButtonReply(Alice, "restart")}

\* Messages of one change, handled one after the other: a product selection
\* followed by add_to_cart, a search query followed by a text, and add_to_cart
\* twice followed by view_cart
FollowUps ==
  { <<ListReply(Alice, "product_constructor"), ButtonReply(Alice, "add_to_cart")>>,
    <<ListReply(Alice, "product_dye-002"), ButtonReply(Alice, "add_to_cart")>>,
    <<TextMessage(Alice, "blue"), TextMessage(Alice, "xyz123")>>,
    <<ButtonReply(Alice, "add_to_cart"), ButtonReply(Alice, "add_to_cart"),
      ButtonReply(Alice, "view_cart")>> }

AnyFeeds ==
  {<<OneEntry(<<MessagesChange(<<m>>)>>)>> : m \in AnyMessages}
  \cup {<<OneEntry(<<MessagesChange(<<m1, m2>>)>>)>> : m1 \in ResetMessages, m2 \in ResetMessages}
  \cup {<<OneEntry(<<MessagesChange(messages)>>)>> : messages \in FollowUps}

InitAnySession ==
  /\ userSessions \in [{Alice} -> AnySession]
  /\ chains = <<>>
  /\ outbox = <<>>
  /\ handled = <<>>
  /\ now = 0
  /\ feed \in AnyFeeds

SpecAnySession == InitAnySession /\ [][Next]_vars

-----------------------------------------------------------------------------
(* Concurrent delivery: one request whose changes all carry one message,   *)
(* to sessions that are viewing a product.                                 *)

AddMessages == {ButtonReply(Alice, "add_to_cart"), ButtonReply(Bob, "add_to_cart")}

\* A request with one change per given message
ChangePerMessage(messages) ==
  OneEntry([i \in 1..Len(messages) |-> MessagesChange(<<messages[i]>>)])

ConcurrentFeeds ==
  UNION {{<<ChangePerMessage(f)>> : f \in [1..n -> AddMessages]} : n \in 1..MaxChanges}
  \cup {<<ChangePerMessage(<<m, ButtonReply(Alice, "clear_cart")>>)>> : m \in AddMessages}
  \cup {<<ChangePerMessage(<<ButtonReply(Alice, "clear_cart"), m>>)>> : m \in AddMessages}

Viewing(cart, productId) ==
  [lastInteraction |-> 0, context |-> "viewing_product", cart |-> cart,
   lastProductViewed |-> productId, currentCategory |-> "reactive"]

InitConcurrent ==
  /\ \E cart \in {<<>>, <<CartItem("int-003", 1), CartItem("dye-001", 1)>>} :
       userSessions = [k \in Senders |->
                         IF k = Alice THEN Viewing(cart, "dye-001")
                         ELSE Viewing(<<CartItem("dye-002", 1)>>, "dye-002")]
  /\ chains = <<>>
  /\ outbox = <<>>
  /\ handled = <<>>
  /\ now = 0
  /\ feed \in ConcurrentFeeds

SpecConcurrent == InitConcurrent /\ [][Next]_vars

-----------------------------------------------------------------------------
(* Reading the log of handled events                                       *)

Events == 1..Len(handled)

Sender(i) == handled[i].message.from

Token(i) == MessageText(handled[i].message)

HadSession(i) == Sender(i) \in DOMAIN handled[i].before

\* The sender's session before and after event i
Before(i) == handled[i].before[Sender(i)]

After(i) == handled[i].after[Sender(i)]

\* A session without its timestamp
Dialog(session) ==
  [context |-> session.context, cart |-> session.cart,
   lastProductViewed |-> session.lastProductViewed,
   currentCategory |-> session.currentCategory]

HandledMessages == [i \in Events |-> handled[i].message]

\* Nothing left to do: no request to come, no handler suspended
Quiet == feed = <<>> /\ \A c \in 1..Len(chains) : chains[c].pending = <<>>

CartActionButtons ==
  << [id |-> "checkout", title |-> "Checkout"],
     [id |-> "clear_cart", title |-> "Clear Cart"],
     [id |-> "continue_shopping", title |-> "Continue Shopping"] >>

-----------------------------------------------------------------------------
(* C1: Scenario 2. A new sender who sends browse_products,                 *)
(* category_reactive, product_dye-001, add_to_cart, view_cart ends with a  *)
(* cart of exactly one item (dye-001, quantity 1), and the last response   *)
(* is the cart summary with the one line for Reactive Red 120, quantity 1, *)
(* and a total of 1250.                                                    *)
C1_Scenario2 ==
  (HandledMessages = Scenario2(Alice)) =>
     /\ userSessions[Alice].cart =
          << [id |-> "dye-001", name |-> "Reactive Red 120", price |-> 1250,
              quantity |-> 1] >>
     /\ handled[5].out =
          << sendTextMessage("*Your Cart*\n\n1. Reactive Red 120 x 1 = $1250\n\n*Total: $1250*"),
             sendInteractiveMessage("Cart Actions", "What would you like to do next?",
                                    CartActionButtons) >>

-----------------------------------------------------------------------------
(* C2: no cart ever holds two entries with the same product id;            *)
(* add_to_cart on a product already in the cart increments that entry and  *)
(* adds none, and on a product not in the cart appends exactly one entry.  *)
NoDuplicateIds(cart) ==
  \A i \in 1..Len(cart) : \A j \in 1..Len(cart) : cart[i].id = cart[j].id => i = j

InCart(cart, id) == \E i \in 1..Len(cart) : cart[i].id = id

\* Event i is an add_to_cart that the viewing_product section takes
IsAddToCart(i) ==
  /\ Token(i) = "add_to_cart"
  /\ HadSession(i)
  /\ Before(i).context = "viewing_product"
  /\ HasProduct(Before(i).lastProductViewed)

C2_NoDuplicateCartEntries ==
  /\ \A k \in DOMAIN userSessions : NoDuplicateIds(userSessions[k].cart)
  /\ \A i \in Events :
       IsAddToCart(i) =>
         LET id == Lookup(Before(i).lastProductViewed).id
             old == Before(i).cart
             new == After(i).cart
         IN IF InCart(old, id)
            THEN /\ Len(new) = Len(old)
                 /\ \A n \in 1..Len(old) :
                      new[n] = IF old[n].id = id
                               THEN [old[n] EXCEPT !.quantity = old[n].quantity + 1]
                               ELSE old[n]
            ELSE /\ Len(new) = Len(old) + 1
                 /\ SubSeq(new, 1, Len(old)) = old
                 /\ new[Len(new)].id = id
                 /\ new[Len(new)].quantity = 1

\* add_to_cart was handled for a product that was in the cart, behind another
C2_Witness ==
  \E i \in Events :
    /\ IsAddToCart(i)
    /\ Len(Before(i).cart) = 2
    /\ Before(i).cart[2].id = Before(i).lastProductViewed
    /\ After(i).cart[2].quantity = Before(i).cart[2].quantity + 1

-----------------------------------------------------------------------------
(* C3: reset or restart, in any dialog state and with any cart, leaves the *)
(* session in welcome with cart, selected category and last viewed product *)
(* unchanged; a second reset yields the same session as the first.         *)
IsReset(i) == Token(i) = "reset" \/ Token(i) = "restart"

C3_ResetKeepsCart ==
  \A i \in Events :
    IsReset(i) =>
      /\ After(i).context = "welcome"
      /\ HadSession(i) =>
           /\ After(i).cart = Before(i).cart
           /\ After(i).currentCategory = Before(i).currentCategory
           /\ After(i).lastProductViewed = Before(i).lastProductViewed
      /\ \A j \in Events :
           (j = i + 1 /\ IsReset(j) /\ Sender(j) = Sender(i)) =>
             Dialog(After(j)) = Dialog(After(i))

\* reset was handled twice for a session that was viewing a product with a
\* cart of two entries
C3_Witness ==
  /\ Len(handled) = 2
  /\ IsReset(1) /\ IsReset(2)
  /\ Before(1).context = "viewing_product"
  /\ Len(Before(1).cart) = 2
  /\ After(2).context = "welcome"
  /\ Len(After(2).cart) = 2

-----------------------------------------------------------------------------
(* C4: no dialog state is terminal. For every state a session can be in,   *)
(* welcome included, some inbound event moves the session to a different   *)
(* state, and reset moves it to welcome.                                   *)
ProbeMessages(from) ==
  {ButtonReply(from, id) : id \in CommandIds}
  \cup {TextMessage(from, body) : body \in FreeTexts}

ContextAfter(from, message) ==
  handleIncomingMessage(userSessions, message, now + 1).sessions[from].context

C4_NoTerminalState ==
  \A from \in DOMAIN userSessions :
    /\ \E message \in ProbeMessages(from) :
         ContextAfter(from, message) # userSessions[from].context
    /\ ContextAfter(from, ButtonReply(from, "reset")) = "welcome"

-----------------------------------------------------------------------------
(* C5: events of one sender are serialized. The processing of one event    *)
(* (session read, mutation, all its sends) completes before the processing *)
(* of another event of the same sender begins, so neither their steps nor  *)
(* their outbound messages interleave.                                     *)
C5_Serialized ==
  /\ \A i \in Events :
       \A j \in handled[i].inFlight : Sender(j) # Sender(i)
  /\ \A a \in 1..Len(outbox) : \A b \in 1..Len(outbox) : \A c \in 1..Len(outbox) :
       (a < b /\ b < c /\ outbox[a].to = outbox[b].to /\ outbox[a].ev = outbox[c].ev)
         => outbox[b].ev = outbox[a].ev

-----------------------------------------------------------------------------
(* C6: no session update is lost under concurrent delivery. For a session  *)
(* in viewing_product, n concurrently processed add_to_cart events of the  *)
(* sender raise the quantity of the viewed product by exactly n under      *)
(* every interleaving, and the sessions are those that processing the      *)
(* events one after the other, in the order the handlers started, gives.   *)
Quantity(cart, id) ==
  IF InCart(cart, id) THEN cart[CHOOSE i \in 1..Len(cart) : cart[i].id = id].quantity
  ELSE 0

EventsOf(from) == {i \in Events : Sender(i) = from}

OnlyAdds(from) == \A i \in EventsOf(from) : Token(i) = "add_to_cart"

\* The sessions after handling the messages one at a time
RECURSIVE Sequential(_, _, _)
Sequential(sessions, messages, time) ==
  IF messages = <<>> THEN sessions
  ELSE Sequential(handleIncomingMessage(sessions, Head(messages), time + 1).sessions,
                  Tail(messages), time + 1)

C6_NoLostUpdate ==
  handled # <<>> =>
    LET initial == handled[1].before IN
    /\ \A from \in DOMAIN initial :
         (initial[from].context = "viewing_product" /\ OnlyAdds(from)) =>
           Quantity(userSessions[from].cart, initial[from].lastProductViewed)
             = Quantity(initial[from].cart, initial[from].lastProductViewed)
               + Cardinality(EventsOf(from))
    /\ userSessions = Sequential(initial, HandledMessages, 0)
    /\ Quiet => \A c \in 1..Len(chains) : chains[c].queue = <<>>

\* Two add_to_cart of one sender, the second handled while the sends of the
\* first were outstanding, have both completed
C6_Witness ==
  /\ Quiet
  /\ Len(handled) = 2
  /\ Sender(1) = Alice /\ Sender(2) = Alice
  /\ IsAddToCart(1) /\ IsAddToCart(2)
  /\ handled[2].inFlight = {1}
  /\ Quantity(userSessions[Alice].cart, "dye-001")
       = Quantity(handled[1].before[Alice].cart, "dye-001") + 2

-----------------------------------------------------------------------------
-----------------------------------------------------------------------------
(* C8: the session mutation of an event is committed before any of its     *)
(* sends is attempted, and the session left by the event is the same       *)
(* whether each send succeeds or fails.                                    *)
C8_CommitBeforeSend ==
  /\ handled # <<>> => userSessions = handled[Len(handled)].after
  /\ \A i \in Events : i > 1 => handled[i].before = handled[i - 1].after
  /\ \A n \in 1..Len(outbox) :
       /\ outbox[n].ev \in Events
       /\ \E m \in 1..Len(handled[outbox[n].ev].out) :
            handled[outbox[n].ev].out[m] = outbox[n].message

\* A send of an add_to_cart failed and the cart keeps the added quantity
C8_Witness ==
  \E n \in 1..Len(outbox) :
    /\ ~outbox[n].ok
    /\ IsAddToCart(outbox[n].ev)
    /\ Quiet
    /\ Len(handled) = 1
    /\ userSessions[outbox[n].to].cart = After(outbox[n].ev).cart
    /\ After(outbox[n].ev).cart # Before(outbox[n].ev).cart

-----------------------------------------------------------------------------
(* C9: Scenario 4. When checkout is processed for a session whose cart is  *)
(* empty, the user is sent a cart-is-empty notice and the session's state  *)
(* after the event is welcome, whatever it was before.                     *)
CartEmptyNotice ==
  sendTextMessage("Your cart is empty. Browse our products to add items to your cart.")

C9_CheckoutEmptyCart ==
  \A i \in Events :
    (Token(i) = "checkout" /\ (HadSession(i) => Before(i).cart = <<>>)) =>
      /\ \E n \in 1..Len(handled[i].out) : handled[i].out[n] = CartEmptyNotice
      /\ After(i).context = "welcome"

-----------------------------------------------------------------------------
(* C10: Scenario 3. When a session in browsing_categories selects          *)
(* category_<key> for a key no product has as its category, the user       *)
(* receives a no-products notice followed by the category list, and the    *)
(* session's state after the event is still browsing_categories.           *)
C10_EmptyCategory ==
  \A i \in Events :
    ( /\ HadSession(i)
      /\ Before(i).context = "browsing_categories"
      /\ StartsWith(Token(i), "category_")
      /\ getProductsByCategory(DropPrefix(Token(i), "category_")) = <<>> ) =>
      /\ handled[i].out =
           <<sendTextMessage("No products found in this category.")>> \o sendCategoryMenu
      /\ After(i).context = "browsing_categories"

-----------------------------------------------------------------------------
(* Reading the messages of a response                                      *)

IsList(m) == m.type = "list"

IsButtons(m) == m.type = "button"

\* The ids of the rows of a list message, section by section
RowIds(m) ==
  [s \in 1..Len(m.sections) |->
     [r \in 1..Len(m.sections[s].rows) |-> m.sections[s].rows[r].id]]

\* The response lists a product
ListsProduct(out) ==
  \E n \in 1..Len(out) :
    /\ IsList(out[n])
    /\ \E s \in 1..Len(out[n].sections) : \E r \in 1..Len(out[n].sections[s].rows) :
         StartsWith(out[n].sections[s].rows[r].id, "product_")

GreetingTokens == {"hi", "hello", "start"}

\* The token contains a greeting or is main_menu: the test of lines 379-380
\* without its last disjunct
GreetingLike(token) ==
  \/ Includes(token, "hi") \/ Includes(token, "hello") \/ Includes(token, "start")
  \/ token = "main_menu"

\* What the section of lines 482-496 sends for a query
SearchOutcome(session, query) ==
  HandleSearchQuery([session EXCEPT !.context = "searching"], query, NoRnd).out

-----------------------------------------------------------------------------
(* C11: Scenario 5. When free text that is no command and has no search    *)
(* hits (xyz123) is processed, in every state, at least one message (the   *)
(* default help) is sent to the user and the session's state, cart,        *)
(* selected category and last viewed product are unchanged.                *)
Unrecognized(i) ==
  /\ handled[i].message.kind = "text"
  /\ Token(i) # ""
  /\ Token(i) \notin CommandIds
  /\ ~GreetingLike(Token(i))
  /\ DirectSearchResults(Token(i)) = <<>>
  /\ SearchResults(Token(i)) = <<>>

C11_DefaultHelp ==
  \A i \in Events :
    (Unrecognized(i) /\ HadSession(i)) =>
      /\ handled[i].out # <<>>
      /\ Dialog(After(i)) = Dialog(Before(i))

-----------------------------------------------------------------------------
(* C12: an empty query matches nothing. When an event whose token is the   *)
(* empty string is processed in state searching, the response lists no     *)
(* product.                                                                *)
C12_EmptyQueryMatchesNothing ==
  \A i \in Events :
    (HadSession(i) /\ Before(i).context = "searching" /\ Token(i) = "") =>
      ~ListsProduct(handled[i].out)

-----------------------------------------------------------------------------
(* C13: every button prompt sent for any event, in any state and with any  *)
(* cart, has at most 3 buttons.                                            *)
C13_AtMostThreeButtons ==
  \A i \in Events : \A n \in 1..Len(handled[i].out) :
    IsButtons(handled[i].out[n]) => Len(handled[i].out[n].buttons) <= 3

-----------------------------------------------------------------------------
(* C14: every option list sent for any event has at most 10 rows in each   *)
(* section, the trailing navigation row counted.                           *)
C14_AtMostTenRows ==
  \A i \in Events : \A n \in 1..Len(handled[i].out) :
    IsList(handled[i].out[n]) =>
      \A s \in 1..Len(handled[i].out[n].sections) :
        Len(handled[i].out[n].sections[s].rows) <= 10

-----------------------------------------------------------------------------
(* C15: Scenario 1. When a sender with no session sends the text hi, a     *)
(* session is created for it in state welcome with an empty cart, and the  *)
(* response holds one option list, whose rows are exactly browse_products, *)
(* search_products, request_quote, track_order, contact_support in that    *)
(* order (the list follows a line of greeting text).                       *)
MainOptions ==
  <<"browse_products", "search_products", "request_quote", "track_order",
    "contact_support">>

IsNewSenderHi(i) ==
  /\ ~HadSession(i)
  /\ handled[i].message.kind = "text"
  /\ handled[i].message.value = "hi"

-----------------------------------------------------------------------------
(* C16: processing is deterministic. A second run from the same sessions   *)
(* and the same inbound event, at a later time and with any random draws,  *)
(* ends                                                                    *)
(* in the same session (state, cart, selected category, last viewed        *)
(* product) and sends the same messages, except for the reply to an order  *)
(* number in tracking_order, where only the status and the delivery date   *)
(* of the first message may differ.                                        *)
TrackingReply(orderNumber, status, days) ==
  <<sendTextMessage("Order #" \o orderNumber \o "\n\nStatus: " \o orderStatuses[status + 1]
      \o "\nEstimated Delivery: " \o DateString(days + 1)
      \o "\n\nThank you for your business!")>> \o sendWelcomeMenu

\* The replies to an order number, over all draws
TrackingReplies(orderNumber) ==
  {TrackingReply(orderNumber, rnd.status, rnd.days) : rnd \in Rnds}

IsTrackingReply(i) == handled[i].out \in TrackingReplies(Token(i))

\* Event i handled again from the sessions it started from
Rerun(i, rnd, time) ==
  handleIncomingMessage(handled[i].before, [handled[i].message EXCEPT !.rnd = rnd], time)

\* No send of event i has returned yet. The log entry of an event is written
\* once, when the event is handled, so it is compared with the second run in
\* the states up to the return of its first send.
JustHandled(i) == \A n \in 1..Len(outbox) : outbox[n].ev # i

C16_Deterministic ==
  \A i \in Events :
    JustHandled(i) =>
      \A rnd \in Rnds : \A again \in {Rerun(i, rnd, now + 1)} :
        /\ DOMAIN again.sessions = DOMAIN handled[i].after
        /\ \A k \in DOMAIN again.sessions :
             Dialog(again.sessions[k]) = Dialog(handled[i].after[k])
        /\ IF IsTrackingReply(i)
           THEN again.out \in TrackingReplies(Token(i))
           ELSE again.out = handled[i].out

\* An order number was answered with status On Hold, and a second run with
\* other draws answers with another status
C16_Witness ==
  \E i \in Events :
    /\ HadSession(i)
    /\ Before(i).context = "tracking_order"
    /\ handled[i].message.rnd = [status |-> 3, days |-> 9]
    /\ handled[i].out = TrackingReply("xyz123", 3, 9)
    /\ Rerun(i, [status |-> 0, days |-> 0], now).out # handled[i].out
    /\ Dialog(After(i)) = Dialog(Before(i))

-----------------------------------------------------------------------------
(* C17: in every state of every session, every cart item has an integer    *)
(* quantity of at least 1, a product id that exists in the catalog, and a  *)
(* cached name and unit price equal to that product's name and price.      *)
WellFormedItem(item) ==
  /\ item.quantity \in Nat
  /\ item.quantity >= 1
  /\ item.id \in ProductIds
  /\ item.name = Lookup(item.id).name
  /\ item.price = Lookup(item.id).price

C17_CartItemsWellFormed ==
  \A k \in DOMAIN userSessions :
    \A n \in 1..Len(userSessions[k].cart) : WellFormedItem(userSessions[k].cart[n])

-----------------------------------------------------------------------------
(* C18: when a greeting token (hi, hello, start) is processed for a        *)
(* session in any state, the main option list is sent and the session's    *)
(* state after the event is welcome.                                       *)
C18_GreetingToWelcome ==
  \A i \in Events :
    Token(i) \in GreetingTokens =>
      /\ handled[i].out = sendWelcomeMenu
      /\ After(i).context = "welcome"

-----------------------------------------------------------------------------
(* C19: for a session in searching, a text whose token is not reset or     *)
(* restart, not one of the greeting tokens hi, hello, start and not a      *)
(* command id is treated as the search query: the response is the search   *)
(* outcome for that text, also when the text contains a greeting as a      *)
(* substring (white, shipping).                                            *)
IsQueryText(i) ==
  /\ handled[i].message.kind = "text"
  /\ Token(i) \notin GreetingTokens
  /\ Token(i) \notin CommandIds

C19_SearchingTakesQuery ==
  \A i \in Events :
    (HadSession(i) /\ Before(i).context = "searching" /\ IsQueryText(i)) =>
      handled[i].out = SearchOutcome(Before(i), Token(i))

-----------------------------------------------------------------------------
(* C20: after a query is processed in searching and its results or the     *)
(* no-results notice are shown, the session is no longer in searching, and *)
(* the sender's next text is not answered by the searching rule.           *)
\* Event i was answered by the section of lines 482-496
AnsweredBySearching(i) ==
  /\ HadSession(i)
  /\ Before(i).context = "searching"
  /\ Token(i) \notin CommandIds
  /\ ~GreetingLike(Token(i))
  /\ handled[i].out = SearchOutcome(Before(i), Token(i))

C20_LeavesSearching ==
  \A i \in Events :
    AnsweredBySearching(i) =>
      /\ After(i).context # "searching"
      /\ \A j \in Events :
           (j = i + 1 /\ Sender(j) = Sender(i)) => ~AnsweredBySearching(j)

-----------------------------------------------------------------------------
(* C21: for a session in tracking_order, the next free text is treated as  *)
(* the order number: it is answered with an order status message for that  *)
(* text, also when the text is a substring of a product name, type or CAS  *)
(* number (120), and the session's state after the event is welcome.       *)
IsFreeText(i) ==
  /\ handled[i].message.kind = "text"
  /\ Token(i) # ""
  /\ Token(i) \notin GreetingTokens
  /\ Token(i) \notin CommandIds

C21_TrackingTakesOrderNumber ==
  \A i \in Events :
    (HadSession(i) /\ Before(i).context = "tracking_order" /\ IsFreeText(i)) =>
      /\ handled[i].out \in TrackingReplies(Token(i))
      /\ After(i).context = "welcome"

-----------------------------------------------------------------------------
(* C22: both search paths, the query in searching and the direct search,   *)
(* list a product if and only if the query is a non-empty substring of the *)
(* product's name, type or CAS number, case ignored; they list the same    *)
(* products for the same query, and no other field makes a product match.  *)
\* The products whose name, type or CAS number contains the query
NameTypeCasMatches(query) ==
  LET Match(product) ==
        /\ query # ""
        /\ \/ Includes(ToLowerCase(product.name), query)
           \/ Includes(ToLowerCase(product.type), query)
           \/ Includes(ToLowerCase(product.cas), query)
  IN SelectSeq(products, Match)

\* The products a response lists
ListedProducts(out) ==
  {id \in ProductIds :
     \E n \in 1..Len(out) :
       /\ IsList(out[n])
       /\ \E s \in 1..Len(out[n].sections) : \E r \in 1..Len(out[n].sections[s].rows) :
            out[n].sections[s].rows[r].id = "product_" \o id}

\* Event i is a text that reaches the two search sections (lines 482-510):
\* no section before them answers it
ReachesSearch(i) ==
  /\ HadSession(i)
  /\ Before(i).context # "welcome"
  /\ handled[i].message.kind = "text"
  /\ Token(i) \notin CommandIds
  /\ ~GreetingLike(Token(i))
  /\ ~StartsWith(Token(i), "category_")
  /\ ~StartsWith(Token(i), "product_")

C22_SearchPathsAgree ==
  \A i \in Events :
    ReachesSearch(i) =>
      LET matches == NameTypeCasMatches(Token(i)) IN
      ListedProducts(handled[i].out) = {matches[n].id : n \in 1..Len(matches)}

-----------------------------------------------------------------------------
(* C23: when a session in browsing_products selects product_<id> for an id *)
(* that is not in the catalog, the user receives a not-found message,      *)
(* distinct from the empty-category notice, and a menu to go on from: the  *)
(* event never ends with no outbound message.                              *)
IsUnknownProductSelection(i) ==
  /\ HadSession(i)
  /\ Before(i).context = "browsing_products"
  /\ StartsWith(Token(i), "product_")
  /\ DropPrefix(Token(i), "product_") \notin ProductIds

C23_UnknownProductReported ==
  \A i \in Events :
    IsUnknownProductSelection(i) =>
      /\ handled[i].out # <<>>
      /\ \E n \in 1..Len(handled[i].out) :
           /\ handled[i].out[n].type = "text"
           /\ handled[i].out[n] # sendTextMessage("No products found in this category.")
      /\ \E n \in 1..Len(handled[i].out) :
           IsList(handled[i].out[n]) \/ IsButtons(handled[i].out[n])

-----------------------------------------------------------------------------
(* C24: when the selection product_<id> of a product of the catalog is     *)
(* processed in browsing_products, the session moves to viewing_product    *)
(* with last viewed product id, and the action prompt that follows the     *)
(* product detail has the view_cart action if and only if the cart is not  *)
(* empty.                                                                  *)
IsProductSelection(i) ==
  /\ HadSession(i)
  /\ Before(i).context = "browsing_products"
  /\ StartsWith(Token(i), "product_")
  /\ DropPrefix(Token(i), "product_") \in ProductIds

HasButton(m, id) == \E b \in 1..Len(m.buttons) : m.buttons[b].id = id

C24_ViewCartIffCartNonEmpty ==
  \A i \in Events :
    IsProductSelection(i) =>
      /\ After(i).context = "viewing_product"
      /\ After(i).lastProductViewed = DropPrefix(Token(i), "product_")
      /\ Len(handled[i].out) = 2
      /\ handled[i].out[1] =
           sendTextMessage(formatProductDetails(Lookup(DropPrefix(Token(i), "product_"))))
      /\ IsButtons(handled[i].out[2])
      /\ HasButton(handled[i].out[2], "view_cart") <=> (After(i).cart # <<>>)

-----------------------------------------------------------------------------
(* C25: when clear_cart is processed for a session in any state, the       *)
(* session's cart is empty and its state is welcome after the event.       *)
C25_ClearCartToWelcome ==
  \A i \in Events :
    Token(i) = "clear_cart" =>
      /\ After(i).cart = <<>>
      /\ After(i).context = "welcome"

-----------------------------------------------------------------------------
(* C26: for a non-empty cart of catalog products, the cart summary that    *)
(* view_cart produces has one numbered line per cart item in insertion     *)
(* order, each line's total is the item's unit price times its quantity,   *)
(* and the grand total is the sum of the line totals; after k add_to_cart  *)
(* on one product of price p the summary shows quantity k and total k*p.   *)
SummaryLine(n, item) ==
  ToString(n) \o ". " \o item.name \o " x " \o ToString(item.quantity)
  \o " = $" \o ToString(item.price * item.quantity) \o "\n"

\* The lines of the items n, n+1, ... of the cart
RECURSIVE SummaryLines(_, _)
SummaryLines(cart, n) ==
  IF n > Len(cart) THEN "" ELSE SummaryLine(n, cart[n]) \o SummaryLines(cart, n + 1)

RECURSIVE SumOfLineTotals(_)
SumOfLineTotals(cart) ==
  IF cart = <<>> THEN 0
  ELSE Head(cart).price * Head(cart).quantity + SumOfLineTotals(Tail(cart))

ExpectedSummary(cart) ==
  << sendTextMessage("*Your Cart*\n\n" \o SummaryLines(cart, 1)
       \o "\n*Total: $" \o ToString(SumOfLineTotals(cart)) \o "*"),
     sendInteractiveMessage("Cart Actions", "What would you like to do next?",
                            CartActionButtons) >>

\* Event i is a view_cart that produces the summary of a cart of catalog products
IsCartSummary(i) ==
  /\ Token(i) = "view_cart"
  /\ HadSession(i)
  /\ Before(i).context # "welcome"
  /\ Before(i).cart # <<>>
  /\ \A n \in 1..Len(Before(i).cart) : WellFormedItem(Before(i).cart[n])

\* Events i and i + 1 put a product of the catalog into an empty cart twice
IsTwoAdds(i) ==
  /\ i + 2 \in Events
  /\ IsAddToCart(i) /\ IsAddToCart(i + 1)
  /\ Before(i).cart = <<>>
  /\ Before(i).lastProductViewed \in ProductIds

C26_CartSummaryArithmetic ==
  \A i \in Events :
    /\ IsCartSummary(i) => handled[i].out = ExpectedSummary(Before(i).cart)
    /\ (IsTwoAdds(i) /\ Token(i + 2) = "view_cart") =>
         LET product == Lookup(Before(i).lastProductViewed) IN
         handled[i + 2].out[1] =
           sendTextMessage("*Your Cart*\n\n1. " \o product.name \o " x 2 = $"
             \o ToString(2 * product.price) \o "\n\n*Total: $"
             \o ToString(2 * product.price) \o "*")

\* Two add_to_cart put Reactive Red 120 into an empty cart, and view_cart
\* showed one line of quantity 2 and the total 2500
C26_Witness ==
  /\ Len(handled) = 3
  /\ IsTwoAdds(1)
  /\ IsCartSummary(3)
  /\ handled[3].out =
       ExpectedSummary(<<[id |-> "dye-001", name |-> "Reactive Red 120",
                          price |-> 1250, quantity |-> 2]>>)
  /\ handled[3].out[1] =
       sendTextMessage("*Your Cart*\n\n1. Reactive Red 120 x 2 = $2500\n\n*Total: $2500*")

-----------------------------------------------------------------------------
(* C27: welcome is absorbing. Once a session is in welcome, the state of   *)
(* every new session, no inbound event changes its state, cart, selected   *)
(* category or last viewed product; every event is answered with the       *)
(* welcome menu, preceded by the reset notice for reset and restart; so    *)
(* every session of the program started afresh is in welcome with an empty *)
(* cart.                                                                   *)
ResetNotice == sendTextMessage("I've reset our conversation. How can I help you today?")

-----------------------------------------------------------------------------
(* C28: a session's cart is modified only by add_to_cart processed in      *)
(* viewing_product, which changes exactly the entry of the last viewed     *)
(* product, by +1 or by appending it with quantity 1, and leaves the state *)
(* viewing_product, and by clear_cart; every other event in every state    *)
(* leaves the cart unchanged.                                              *)
\* The cart with the quantity of the product raised by one
CartPlusOne(cart, product) ==
  IF InCart(cart, product.id)
  THEN [n \in 1..Len(cart) |->
          IF cart[n].id = product.id
          THEN [cart[n] EXCEPT !.quantity = cart[n].quantity + 1] ELSE cart[n]]
  ELSE cart \o <<[id |-> product.id, name |-> product.name, price |-> product.price,
                  quantity |-> 1]>>

C28_CartFrame ==
  \A i \in Events :
    HadSession(i) =>
      IF IsAddToCart(i)
      THEN /\ After(i).cart = CartPlusOne(Before(i).cart, Lookup(Before(i).lastProductViewed))
           /\ After(i).context = "viewing_product"
      ELSE IF Token(i) = "clear_cart"
      THEN After(i).cart = <<>> \/ After(i).cart = Before(i).cart
      ELSE After(i).cart = Before(i).cart

\* checkout, reset and a search left a cart of two entries as it was, and
\* add_to_cart changed one
C28_Witness ==
  \E i \in Events :
    /\ HadSession(i)
    /\ Len(Before(i).cart) = 2
    /\ Token(i) \in {"checkout", "reset", "blue", "view_cart", "browse_products"}
    /\ Before(i).context # "welcome"
    /\ After(i).cart = Before(i).cart
    /\ After(i).context # Before(i).context \/ handled[i].out # <<>>

-----------------------------------------------------------------------------
(* C29: 'state checkout implies the cart is not empty' holds for a new     *)
(* session and is preserved by every event: no event leaves a session in   *)
(* checkout with an empty cart, clear_cart in checkout included.           *)
CheckoutHasItems(session) == session.context = "checkout" => session.cart # <<>>

C29_CheckoutHasItems ==
  \A i \in Events :
    IF HadSession(i)
    THEN CheckoutHasItems(Before(i)) => CheckoutHasItems(After(i))
    ELSE CheckoutHasItems(After(i))

-----------------------------------------------------------------------------
(* C30: 'state viewing_product implies the last viewed product is the id   *)
(* of a product of the catalog' holds for a new session and is preserved   *)
(* by every event, so add_to_cart in viewing_product always finds its      *)
(* product and changes the cart.                                           *)
ViewsCatalogProduct(session) ==
  session.context = "viewing_product" => session.lastProductViewed \in ProductIds

C30_ViewingProductInCatalog ==
  \A i \in Events :
    /\ IF HadSession(i)
       THEN ViewsCatalogProduct(Before(i)) => ViewsCatalogProduct(After(i))
       ELSE ViewsCatalogProduct(After(i))
    /\ ( /\ HadSession(i)
         /\ ViewsCatalogProduct(Before(i))
         /\ Before(i).context = "viewing_product"
         /\ Token(i) = "add_to_cart" ) => After(i).cart # Before(i).cart

====
